---- MODULE Spec2Model ----
(***************************************************************************)
(* AutoPrint extension: the background service worker (download handler,   *)
(* filter engine, print workflow) together with the storage manager        *)
(* (settings, print history) and the settings validation it relies on.     *)
(*                                                                         *)
(* Strings are sequences of one-character strings, so that lower-casing,   *)
(* trimming, prefix tests and splitting are computed as the code does.     *)
(* A JavaScript value is a record [type, b, s, n]; only the field that     *)
(* belongs to its type is meaningful.  A nullable reference is a sequence  *)
(* of length 0 (null) or 1.                                                *)
(***************************************************************************)
EXTENDS Integers, Sequences, FiniteSets, TLC

\* ------------------------------------------------------------------------
\* Bounds of the model
\* ------------------------------------------------------------------------
\* download events handled
MaxEvents == 2
\* settings saves, history clears and failed storage operations, together
MaxEnvOps == 1
\* length of the filenames handed to checkFilters
MaxNameLen == 3
\* length of the filter strings handed to validateSettings
MaxFilterLen == 2

\* ------------------------------------------------------------------------
\* Strings
\* ------------------------------------------------------------------------
Upper == <<"A","B","C","D","E","F","G","H","I","J","K","L","M",
           "N","O","P","Q","R","S","T","U","V","W","X","Y","Z">>
Lower == <<"a","b","c","d","e","f","g","h","i","j","k","l","m",
           "n","o","p","q","r","s","t","u","v","w","x","y","z">>

LowerChar(c) ==
    IF \E k \in 1..26 : Upper[k] = c
    THEN Lower[CHOOSE k \in 1..26 : Upper[k] = c]
    ELSE c

toLowerCase(s) == [k \in 1..Len(s) |-> LowerChar(s[k])]

IsSpace(c) == c = " "

RECURSIVE trimStart(_)
trimStart(s) ==
    IF s # <<>> /\ IsSpace(Head(s)) THEN trimStart(Tail(s)) ELSE s

RECURSIVE trimEnd(_)
trimEnd(s) ==
    IF s # <<>> /\ IsSpace(s[Len(s)])
    THEN trimEnd(SubSeq(s, 1, Len(s) - 1))
    ELSE s

trim(s) == trimEnd(trimStart(s))

stripLeadingDot(s) ==
    IF s # <<>> /\ Head(s) = "." THEN Tail(s) ELSE s

\* includes() in the place of startsWith()
startsWith_includes(s, p) ==
    \E k \in 0..(Len(s) - Len(p)) : SubSeq(s, k + 1, k + Len(p)) = p

startsWith(s, p) ==
    /\ Len(p) <= Len(s)
    /\ SubSeq(s, 1, Len(p)) = p

\* the part of s after the last character of the set seps (all of s when
\* there is none): the last element of s.split(seps)
RECURSIVE lastPart(_, _)
lastPart(s, seps) ==
    IF \E k \in 1..Len(s) : s[k] \in seps
    THEN lastPart(Tail(s), seps)
    ELSE s

\* ------------------------------------------------------------------------
\* JavaScript values and settings
\* ------------------------------------------------------------------------
JsUndefined == [type |-> "undefined", b |-> FALSE, s |-> <<>>, n |-> 0]
JsBool(x) == [type |-> "boolean", b |-> x, s |-> <<>>, n |-> 0]
JsString(x) == [type |-> "string", b |-> FALSE, s |-> x, n |-> 0]
JsNumber(x) == [type |-> "number", b |-> FALSE, s |-> <<>>, n |-> x]
JsNaN == [type |-> "NaN", b |-> FALSE, s |-> <<>>, n |-> 0]

typeof(v) == IF v.type = "NaN" THEN "number" ELSE v.type

\* a number held by a settings record: an integer or NaN
Num(k) == [nan |-> FALSE, n |-> k]
NaN == [nan |-> TRUE, n |-> 0]

DEFAULTS ==
    [enabled |-> FALSE,
     prefixFilter |-> <<>>,
     extensionFilter |-> <<>>,
     showNotifications |-> TRUE,
     maxHistoryItems |-> Num(100)]

getDefaultSettings == DEFAULTS

\* settings?.field of a nullable raw object
Field(raw, f) == IF raw = <<>> THEN JsUndefined ELSE raw[1][f]

\* one invalid field makes the whole object fall back to the defaults
validateSettings_wholesale(raw) ==
    LET defaults == getDefaultSettings
        en == Field(raw, "enabled")
        pf == Field(raw, "prefixFilter")
        ef == Field(raw, "extensionFilter")
        sn == Field(raw, "showNotifications")
        mh == Field(raw, "maxHistoryItems")
    IN  IF /\ typeof(en) = "boolean" /\ typeof(pf) = "string"
           /\ typeof(ef) = "string" /\ typeof(sn) = "boolean"
           /\ typeof(mh) = "number"
        THEN [enabled |-> en.b,
              prefixFilter |-> trim(pf.s),
              extensionFilter |-> stripLeadingDot(toLowerCase(trim(ef.s))),
              showNotifications |-> sn.b,
              maxHistoryItems |-> IF mh.type = "NaN" THEN NaN ELSE Num(mh.n)]
        ELSE defaults

validateSettings(raw) ==
    LET defaults == getDefaultSettings
        en == Field(raw, "enabled")
        pf == Field(raw, "prefixFilter")
        ef == Field(raw, "extensionFilter")
        sn == Field(raw, "showNotifications")
        mh == Field(raw, "maxHistoryItems")
    IN  [enabled |-> IF typeof(en) = "boolean" THEN en.b ELSE defaults.enabled,
         prefixFilter |->
             IF typeof(pf) = "string" THEN trim(pf.s) ELSE defaults.prefixFilter,
         extensionFilter |->
             IF typeof(ef) = "string"
             THEN stripLeadingDot(toLowerCase(trim(ef.s)))
             ELSE defaults.extensionFilter,
         showNotifications |->
             IF typeof(sn) = "boolean" THEN sn.b ELSE defaults.showNotifications,
         maxHistoryItems |->
             IF typeof(mh) = "number"
             THEN (IF mh.type = "NaN" THEN NaN ELSE Num(mh.n))
             ELSE defaults.maxHistoryItems]

\* the object a settings record is stored as
ToRaw(st) ==
    <<[enabled |-> JsBool(st.enabled),
       prefixFilter |-> JsString(st.prefixFilter),
       extensionFilter |-> JsString(st.extensionFilter),
       showNotifications |-> JsBool(st.showNotifications),
       maxHistoryItems |->
           IF st.maxHistoryItems.nan THEN JsNaN ELSE JsNumber(st.maxHistoryItems.n)]>>

\* ------------------------------------------------------------------------
\* Filter engine
\* ------------------------------------------------------------------------
PathSeparators == {"/", "\\"}

\* the whole path in the place of its last segment
getFilename_fullPath(downloadItem) == downloadItem.filename

getFilename(downloadItem) ==
    IF downloadItem.filename # <<>>
    THEN lastPart(downloadItem.filename, PathSeparators)
    ELSE <<>>

getFileExtension(filename) ==
    IF \E k \in 1..Len(filename) : filename[k] = "."
    THEN toLowerCase(lastPart(filename, {"."}))
    ELSE <<>>

\* a filter that is applied even when it is empty
Active_always(filter) == TRUE

\* a JavaScript string is truthy when it is not empty
Active(filter) == filter # <<>> /\ trim(filter) # <<>>

\* a verdict that one matching sub-filter is enough for
checkFilters_either(cs, filename) ==
    IF cs = <<>>
    THEN [matches |-> FALSE, prefixMatch |-> TRUE, extensionMatch |-> TRUE,
          details |-> <<"Settings not loaded">>]
    ELSE
      LET prefixFilter == cs[1].prefixFilter
          extensionFilter == cs[1].extensionFilter
          prefixMatch ==
              IF Active(prefixFilter)
              THEN startsWith(toLowerCase(filename), toLowerCase(prefixFilter))
              ELSE TRUE
          fileExt == getFileExtension(filename)
          filterExt == stripLeadingDot(toLowerCase(extensionFilter))
          extensionMatch ==
              IF Active(extensionFilter) THEN fileExt = filterExt ELSE TRUE
      IN  [matches |-> prefixMatch \/ extensionMatch,
           prefixMatch |-> prefixMatch,
           extensionMatch |-> extensionMatch,
           details |->
               (IF prefixMatch THEN <<>> ELSE <<"Prefix not matched">>)
               \o (IF extensionMatch THEN <<>> ELSE <<"Extension not matched">>)]

checkFilters(cs, filename) ==
    IF cs = <<>>
    THEN [matches |-> FALSE, prefixMatch |-> TRUE, extensionMatch |-> TRUE,
          details |-> <<"Settings not loaded">>]
    ELSE
      LET prefixFilter == cs[1].prefixFilter
          extensionFilter == cs[1].extensionFilter
          prefixMatch ==
              IF Active(prefixFilter)
              THEN startsWith(toLowerCase(filename), toLowerCase(prefixFilter))
              ELSE TRUE
          fileExt == getFileExtension(filename)
          filterExt == stripLeadingDot(toLowerCase(extensionFilter))
          extensionMatch ==
              IF Active(extensionFilter) THEN fileExt = filterExt ELSE TRUE
      IN  [matches |-> prefixMatch /\ extensionMatch,
           prefixMatch |-> prefixMatch,
           extensionMatch |-> extensionMatch,
           details |->
               (IF prefixMatch THEN <<>> ELSE <<"Prefix not matched">>)
               \o (IF extensionMatch THEN <<>> ELSE <<"Extension not matched">>)]

\* ------------------------------------------------------------------------
\* Inputs
\* ------------------------------------------------------------------------
Str_inv == <<"i","n","v","_">>
Str_PDF == <<".","P","D","F">>

RawSettings(en, pf, ef, sn, mh) ==
    <<[enabled |-> JsBool(en),
       prefixFilter |-> JsString(pf),
       extensionFilter |-> JsString(ef),
       showNotifications |-> JsBool(sn),
       maxHistoryItems |-> JsNumber(mh)]>>

SettingsAll == RawSettings(TRUE, <<>>, <<>>, TRUE, 2)
SettingsFiltered == RawSettings(TRUE, Str_inv, Str_PDF, FALSE, 1)

\* the settings objects the options page and the popup hand to saveSettings
SettingsInputs ==
    { RawSettings(FALSE, <<>>, <<>>, TRUE, 100),
      SettingsAll,
      SettingsFiltered,
      RawSettings(TRUE, <<>>, <<>>, TRUE, -1) }

\* the browser's download table: id -> download item; an id that is not in
\* the table has been erased, and search returns no item for it
DownloadTable ==
    [id \in 1..2 |->
        IF id = 1
        THEN [filename |-> <<"/","d","/","I","N","V","_","a",".","p","d","f">>,
              fileSize |-> 10]
        ELSE [filename |-> <<"/","i","n","v","_","/","x",".","t","x","t">>,
              fileSize |-> 20]]
DownloadIds == 1..3

\* what the store holds when the worker starts: nothing, or what an earlier
\* saveSettings wrote
InitialSettings ==
    {<<>>} \cup {ToRaw(validateSettings(r)) : r \in {SettingsAll, SettingsFiltered}}

DeltaStates == {"absent", "in_progress", "complete", "interrupted", "canceled"}

Instances == 1..MaxEvents
Callers == {"startup"}

\* ------------------------------------------------------------------------
\* State
\* ------------------------------------------------------------------------
VARIABLES
    storage,          \* chrome.storage.local: [settings, history]
    currentSettings,  \* the worker's settings cache (null or a record)
    isInitialized,
    listeners,        \* number of registered storage-change listeners
    changes,          \* storage change events dispatched, not yet handled
    badge,            \* the badge text
    initPc,           \* the initialize() calls made at start and on install
    inst,             \* one handleDownloadChanged call per download event
    tabs,             \* the tab each call opened
    hung,             \* the worker's thread is inside a loop that never exits
    appended,         \* the addToPrintHistory calls that resolved, in order
    overlapped,       \* two addToPrintHistory calls were in progress at once
    saves, clears,    \* counts of the options-page operations
    faults,           \* count of the storage operations that failed
    fname,            \* the filename handed to checkFilters
    verdict,          \* what checkFilters returned for it (null: not called)
    loaded,           \* what loadSettings returned (null: not called)
    path,             \* downloadItem.filename of the download that was resolved
    initLoad,         \* what the loadSettings of an initialize() call read
    handlerLoad,      \* the same for the initialize() a handler awaits
    erased            \* the records that clearPrintHistory calls removed

\* the argument and the result of a call of checkFilters on its own, the
\* result of a call of loadSettings on its own, and the path getFilename got
filterVars == <<fname, verdict, loaded, path>>

vars == <<storage, currentSettings, isInitialized, listeners, changes, badge,
          initPc, inst, tabs, hung, appended, overlapped, saves, clears, faults,
          fname, verdict, loaded, path, initLoad, handlerLoad, erased>>

\* the settings a pending initialize() got from the store and has not yet
\* assigned to the cache (null: the read has not settled)
loadVars == <<initLoad, handlerLoad>>

\* One call of handleDownloadChanged.  pc is the await the call is suspended
\* at; id, status, error, cap and history are its local variables (those of
\* printFile and addToPrintHistory included); the other fields record what
\* the call has done: the event it got, whether it searched, whether it
\* called printFile, how the ready wait ended, the outcome of the print
\* trigger, the failure it met, the addToPrintHistory calls that settled
\* (the item, and whether the storage write succeeded) and the outcome of
\* its showNotification call ("suppressed": no notification was created).
Idle ==
    [pc |-> "idle", id |-> 0, status |-> "", error |-> "",
     cap |-> Num(0), history |-> <<>>,
     event |-> "", searched |-> FALSE, printFile |-> FALSE, ready |-> "",
     trigger |-> "", failure |-> "", records |-> <<>>, note |-> ""]

Init ==
    /\ storage \in [settings : InitialSettings, history : {<<>>}]
    /\ currentSettings = <<>>
    /\ isInitialized = FALSE
    /\ listeners = 0
    /\ changes = <<>>
    /\ badge = ""
    /\ initPc = [c \in Callers |-> "idle"]
    /\ inst = [i \in Instances |-> Idle]
    /\ tabs = [i \in Instances |-> "none"]
    /\ hung = FALSE
    /\ appended = <<>>
    /\ overlapped = FALSE
    /\ saves = 0
    /\ clears = 0
    /\ faults = 0
    /\ fname = <<>>
    /\ verdict = <<>>
    /\ loaded = <<>>
    /\ path = <<>>
    /\ initLoad = [c \in Callers |-> <<>>]
    /\ handlerLoad = [i \in Instances |-> <<>>]
    /\ erased = {}

\* ------------------------------------------------------------------------
\* Storage manager
\* ------------------------------------------------------------------------
EnvOps == saves + clears + faults

\* a storage operation may fail (fault = TRUE)
Fault(fault) ==
    /\ fault => EnvOps < MaxEnvOps
    /\ faults' = IF fault THEN faults + 1 ELSE faults

\* loadSettings: a failed storage read is swallowed and gives the defaults
loadSettings(fault) ==
    IF fault THEN getDefaultSettings ELSE validateSettings(storage.settings)

\* loadPrintHistory: a failed storage read is swallowed and gives []
loadPrintHistory(fault) ==
    IF fault THEN <<>> ELSE storage.history

pop(h) == IF h = <<>> THEN h ELSE SubSeq(h, 1, Len(h) - 1)

\* history.length > cap, in JavaScript: false for NaN
Exceeds(h, cap) == ~cap.nan /\ Len(h) > cap.n

\* the trimming loop never exits: popping an empty array leaves its length 0
Diverges(h, cap) == ~cap.nan /\ cap.n < 0

RECURSIVE Trim(_, _)
Trim(h, cap) == IF Exceeds(h, cap) THEN Trim(pop(h), cap) ELSE h

\* an item built without the error message
NewItem_noError(id, status, error) ==
    [fullPath |-> DownloadTable[id].filename,
     filename |-> getFilename(DownloadTable[id]),
     status |-> status,
     error |-> "",
     fileSize |-> IF status = "printed" THEN DownloadTable[id].fileSize ELSE 0]

NewItem(id, status, error) ==
    [fullPath |-> DownloadTable[id].filename,
     filename |-> getFilename(DownloadTable[id]),
     status |-> status,
     error |-> error,
     fileSize |-> IF status = "printed" THEN DownloadTable[id].fileSize ELSE 0]

\* ------------------------------------------------------------------------
\* Service worker
\* ------------------------------------------------------------------------
\* a badge that shows ON as soon as settings are loaded
updateBadge_loaded(cs) == IF cs # <<>> THEN "ON" ELSE ""

updateBadge(cs) == IF cs # <<>> /\ cs[1].enabled THEN "ON" ELSE ""

\* a showNotification without the showNotifications check
showNotification_unchecked(cs, kind) == kind

\* what showNotification does: the kind of notification created, if any
showNotification(cs, kind) ==
    IF cs = <<>> \/ ~cs[1].showNotifications THEN "suppressed" ELSE kind

\* a handler that returns early only when the event carries no state
IsComplete_absentOnly(delta) == delta # "absent"

\* delta.state && delta.state.current === 'complete'
IsComplete(delta) == delta = "complete"

AppendPcs == {"a_settings", "a_history", "a_set"}

\* addToPrintHistory is called: it awaits loadSettings first
StartAppend(i, r, status) ==
    /\ inst' = [inst EXCEPT ![i] = [r EXCEPT !.pc = "a_settings", !.status = status]]
    /\ overlapped' = (overlapped \/ \E j \in Instances \ {i} : inst[j].pc \in AppendPcs)

\* a handler without the enabled check
EnabledCheck_unchecked(cs, r) ==
    [r EXCEPT !.pc = "search", !.searched = TRUE]

\* the enabled check of handleDownloadChanged and the search it starts
EnabledCheck(cs, r) ==
    IF cs = <<>> \/ ~cs[1].enabled
    THEN [r EXCEPT !.pc = "done", !.failure = "disabled"]
    ELSE [r EXCEPT !.pc = "search", !.searched = TRUE]

\* a catch that also reports the failure to the user
OnSearchFailed_notified(r) ==
    [r EXCEPT !.pc = "done", !.failure = "search", !.note = "error"]

\* the search rejected: the handler's catch logs to the console
OnSearchFailed(r) == [r EXCEPT !.pc = "done", !.failure = "search"]

\* a handler that reports the missing download to the user
OnNotFound_notified(r) ==
    [r EXCEPT !.pc = "done", !.failure = "notfound", !.note = "error"]

\* the search found no item: logged to the console, return
OnNotFound(r) == [r EXCEPT !.pc = "done", !.failure = "notfound"]

\* a handler that prints whatever the verdict
FilterGate_ignored(filterResult) == TRUE

\* if (!filterResult.matches) return
FilterGate(filterResult) == filterResult.matches

\* the body of initialize() after its settings load
Initialized(read) ==
    /\ currentSettings' = read
    /\ listeners' = listeners + 1
    /\ badge' = updateBadge(currentSettings')
    /\ isInitialized' = TRUE

\* initialize() is called when the worker's script is evaluated
InitializeCall(c) ==
    /\ ~hung
    /\ initPc[c] = "idle"
    /\ initPc' = [initPc EXCEPT ![c] = IF isInitialized THEN "done" ELSE "load"]
    /\ UNCHANGED <<storage, currentSettings, isInitialized, listeners, changes,
                   badge, inst, tabs, hung, appended, overlapped, saves, clears,
                   faults>>
    /\ UNCHANGED filterVars
    /\ UNCHANGED erased
    /\ UNCHANGED loadVars

\* the storage read of the call's loadSettings settles in the browser; the
\* call resumes in a later task of the worker
InitializeRead(c, fault) ==
    /\ ~hung
    /\ initPc[c] = "load"
    /\ initLoad[c] = <<>>
    /\ Fault(fault)
    /\ initLoad' = [initLoad EXCEPT ![c] = <<loadSettings(fault)>>]
    /\ UNCHANGED <<storage, currentSettings, isInitialized, listeners, changes,
                   badge, initPc, inst, tabs, hung, appended, overlapped, saves,
                   clears, handlerLoad>>
    /\ UNCHANGED filterVars
    /\ UNCHANGED erased

\* the call resumes after await loadSettings()
InitializeLoaded(c) ==
    /\ ~hung
    /\ initPc[c] = "load"
    /\ initLoad[c] # <<>>
    /\ Initialized(initLoad[c])
    /\ initPc' = [initPc EXCEPT ![c] = "done"]
    /\ initLoad' = [initLoad EXCEPT ![c] = <<>>]
    /\ UNCHANGED <<storage, changes, inst, tabs, hung, appended, overlapped,
                   saves, clears, faults, handlerLoad>>
    /\ UNCHANGED filterVars
    /\ UNCHANGED erased

\* a download event is delivered; the calls take the slots in order
HandleDownloadChanged(i, delta, id) ==
    /\ ~hung
    /\ initPc["startup"] # "idle"
    /\ inst[i].pc = "idle"
    /\ \A j \in Instances : j < i => inst[j].pc # "idle" /\ inst[j].id # id
    /\ LET r == [inst[i] EXCEPT !.event = delta, !.id = id]
       IN  inst' = [inst EXCEPT ![i] =
                IF ~IsComplete(delta) THEN [r EXCEPT !.pc = "done", !.id = 0]
                ELSE IF ~isInitialized THEN [r EXCEPT !.pc = "init"]
                ELSE EnabledCheck(currentSettings, r)]
    /\ UNCHANGED <<storage, currentSettings, isInitialized, listeners, changes,
                   badge, initPc, tabs, hung, appended, overlapped, saves, clears,
                   faults>>
    /\ UNCHANGED filterVars
    /\ UNCHANGED erased
    /\ UNCHANGED loadVars

\* the storage read of the initialize() awaited by the handler settles
HandlerRead(i, fault) ==
    /\ ~hung
    /\ inst[i].pc = "init"
    /\ handlerLoad[i] = <<>>
    /\ Fault(fault)
    /\ handlerLoad' = [handlerLoad EXCEPT ![i] = <<loadSettings(fault)>>]
    /\ UNCHANGED <<storage, currentSettings, isInitialized, listeners, changes,
                   badge, initPc, inst, tabs, hung, appended, overlapped, saves,
                   clears, initLoad>>
    /\ UNCHANGED filterVars
    /\ UNCHANGED erased

\* the initialize() awaited by the handler completes; the handler goes on
HandlerInitialized(i) ==
    /\ ~hung
    /\ inst[i].pc = "init"
    /\ handlerLoad[i] # <<>>
    /\ Initialized(handlerLoad[i])
    /\ inst' = [inst EXCEPT ![i] = EnabledCheck(currentSettings', inst[i])]
    /\ handlerLoad' = [handlerLoad EXCEPT ![i] = <<>>]
    /\ UNCHANGED <<storage, changes, initPc, tabs, hung, appended, overlapped,
                   saves, clears, faults, initLoad>>
    /\ UNCHANGED filterVars
    /\ UNCHANGED erased

\* chrome.downloads.search settles; filter check; printFile opens the tab
SearchDone(i, ok) ==
    /\ ~hung
    /\ inst[i].pc = "search"
    /\ LET r == inst[i]
           downloads == IF r.id \in DOMAIN DownloadTable
                        THEN <<DownloadTable[r.id]>> ELSE <<>>
       IN  inst' = [inst EXCEPT ![i] =
                IF ~ok THEN OnSearchFailed(r)
                ELSE IF downloads = <<>> THEN OnNotFound(r)
                ELSE IF ~FilterGate(checkFilters(currentSettings, getFilename(downloads[1])))
                THEN [r EXCEPT !.pc = "done", !.failure = "filtered"]
                ELSE [r EXCEPT !.pc = "open", !.printFile = TRUE]]
    /\ UNCHANGED <<storage, currentSettings, isInitialized, listeners, changes,
                   badge, initPc, tabs, hung, appended, overlapped, saves, clears,
                   faults>>
    /\ UNCHANGED filterVars
    /\ UNCHANGED erased
    /\ UNCHANGED loadVars

\* chrome.tabs.create settles
OpenDone(i, ok) ==
    /\ ~hung
    /\ inst[i].pc = "open"
    /\ IF ok
       THEN /\ inst' = [inst EXCEPT ![i].pc = "ready"]
            /\ tabs' = [tabs EXCEPT ![i] = "open"]
            /\ UNCHANGED overlapped
       ELSE /\ StartAppend(i, [inst[i] EXCEPT !.error = "open", !.failure = "open"],
                           "error")
            /\ UNCHANGED tabs
    /\ UNCHANGED <<storage, currentSettings, isInitialized, listeners, changes,
                   badge, initPc, hung, appended, saves, clears, faults>>
    /\ UNCHANGED filterVars
    /\ UNCHANGED erased
    /\ UNCHANGED loadVars

\* a printFile that calls executeScript as soon as the ready wait is over
ReadyOrTimeout_noSettle(i, how) ==
    /\ ~hung
    /\ inst[i].pc = "ready"
    /\ inst' = [inst EXCEPT ![i].pc = "trigger", ![i].ready = how]
    /\ UNCHANGED <<storage, currentSettings, isInitialized, listeners, changes,
                   badge, initPc, tabs, hung, appended, overlapped, saves, clears,
                   faults>>
    /\ UNCHANGED filterVars
    /\ UNCHANGED erased
    /\ UNCHANGED loadVars

\* the tab reports status complete, or the 3000 ms timer fires first
ReadyOrTimeout(i, how) ==
    /\ ~hung
    /\ inst[i].pc = "ready"
    /\ inst' = [inst EXCEPT ![i].pc = "settle", ![i].ready = how]
    /\ UNCHANGED <<storage, currentSettings, isInitialized, listeners, changes,
                   badge, initPc, tabs, hung, appended, overlapped, saves, clears,
                   faults>>
    /\ UNCHANGED filterVars
    /\ UNCHANGED erased
    /\ UNCHANGED loadVars

\* the 500 ms settle delay elapses; executeScript is called
SettleDone(i) ==
    /\ ~hung
    /\ inst[i].pc = "settle"
    /\ inst' = [inst EXCEPT ![i].pc = "trigger"]
    /\ UNCHANGED <<storage, currentSettings, isInitialized, listeners, changes,
                   badge, initPc, tabs, hung, appended, overlapped, saves, clears,
                   faults>>
    /\ UNCHANGED filterVars
    /\ UNCHANGED erased
    /\ UNCHANGED loadVars

\* executeScript settles
TriggerDone(i, ok) ==
    /\ ~hung
    /\ inst[i].pc = "trigger"
    /\ IF ok
       THEN StartAppend(i, [inst[i] EXCEPT !.trigger = "ok"], "printed")
       ELSE /\ inst' = [inst EXCEPT ![i].pc = "done",
                                    ![i].trigger = "failed",
                                    ![i].note = showNotification(currentSettings, "ready")]
            /\ UNCHANGED overlapped
    /\ UNCHANGED <<storage, currentSettings, isInitialized, listeners, changes,
                   badge, initPc, tabs, hung, appended, saves, clears, faults>>
    /\ UNCHANGED filterVars
    /\ UNCHANGED erased
    /\ UNCHANGED loadVars

\* addToPrintHistory: its loadSettings settles
AddLoadSettings(i, fault) ==
    /\ ~hung
    /\ inst[i].pc = "a_settings"
    /\ Fault(fault)
    /\ inst' = [inst EXCEPT ![i].pc = "a_history",
                            ![i].cap = loadSettings(fault).maxHistoryItems]
    /\ UNCHANGED <<storage, currentSettings, isInitialized, listeners, changes,
                   badge, initPc, tabs, hung, appended, overlapped, saves, clears>>
    /\ UNCHANGED filterVars
    /\ UNCHANGED erased
    /\ UNCHANGED loadVars

\* addToPrintHistory: its loadPrintHistory settles; unshift, trim, storage.set
AddLoadHistory(i, fault) ==
    /\ ~hung
    /\ inst[i].pc = "a_history"
    /\ Fault(fault)
    /\ LET r == inst[i]
           h == <<NewItem(r.id, r.status, r.error)>> \o loadPrintHistory(fault)
       IN  IF Diverges(h, r.cap)
           THEN /\ inst' = [inst EXCEPT ![i].pc = "hung"]
                /\ hung' = TRUE
           ELSE /\ inst' = [inst EXCEPT ![i].pc = "a_set",
                                        ![i].history = Trim(h, r.cap)]
                /\ UNCHANGED hung
    /\ UNCHANGED <<storage, currentSettings, isInitialized, listeners, changes,
                   badge, initPc, tabs, appended, overlapped, saves, clears>>
    /\ UNCHANGED filterVars
    /\ UNCHANGED erased
    /\ UNCHANGED loadVars

\* addToPrintHistory: its storage.set settles; printFile goes on to its end
AddSetDone(i, fault) ==
    /\ ~hung
    /\ inst[i].pc = "a_set"
    /\ Fault(fault)
    /\ LET ok == ~fault
           newItem == NewItem(inst[i].id, inst[i].status, inst[i].error)
           r == [inst[i] EXCEPT !.history = <<>>, !.cap = Num(0),
                                !.records = Append(@, [item |-> newItem, ok |-> ok])]
       IN
       /\ storage' = IF ok THEN [storage EXCEPT !.history = inst[i].history] ELSE storage
       /\ appended' = IF ok
                      THEN Append(appended,
                                  [item |-> newItem, cap |-> inst[i].cap])
                      ELSE appended
       /\ IF r.status = "printed" /\ ok
          THEN /\ inst' = [inst EXCEPT ![i] =
                       [r EXCEPT !.pc = "done",
                                 !.note = showNotification(currentSettings, "success")]]
               /\ tabs' = [tabs EXCEPT ![i] = "closing"]
               /\ UNCHANGED overlapped
          ELSE IF r.status = "printed"
          THEN /\ StartAppend(i, [r EXCEPT !.error = "storage", !.failure = "storage"],
                              "error")
               /\ UNCHANGED tabs
          ELSE /\ inst' = [inst EXCEPT ![i] =
                       [r EXCEPT !.pc = "done",
                                 !.note = showNotification(currentSettings, "error")]]
               /\ UNCHANGED <<tabs, overlapped>>
    /\ UNCHANGED <<currentSettings, isInitialized, listeners, changes,
                   badge, initPc, hung, saves, clears>>
    /\ UNCHANGED filterVars
    /\ UNCHANGED erased
    /\ UNCHANGED loadVars

\* the listener registered by onSettingsChange handles a change event
SettingsChanged ==
    /\ ~hung
    /\ changes # <<>>
    /\ currentSettings' = <<validateSettings(Head(changes))>>
    /\ badge' = updateBadge(currentSettings')
    /\ changes' = Tail(changes)
    /\ UNCHANGED <<storage, isInitialized, listeners, initPc, inst, tabs, hung,
                   appended, overlapped, saves, clears, faults>>
    /\ UNCHANGED filterVars
    /\ UNCHANGED erased
    /\ UNCHANGED loadVars

\* ------------------------------------------------------------------------
\* Options page and popup
\* ------------------------------------------------------------------------
saveSettings(raw) ==
    /\ EnvOps < MaxEnvOps
    /\ saves' = saves + 1
    /\ LET validatedSettings == ToRaw(validateSettings(raw))
       IN  /\ storage' = [storage EXCEPT !.settings = validatedSettings]
           /\ changes' = IF listeners > 0 /\ validatedSettings # storage.settings
                         THEN Append(changes, validatedSettings)
                         ELSE changes
    /\ UNCHANGED <<currentSettings, isInitialized, listeners, badge, initPc,
                   inst, tabs, hung, appended, overlapped, clears, faults>>
    /\ UNCHANGED filterVars
    /\ UNCHANGED erased
    /\ UNCHANGED loadVars

clearPrintHistory ==
    /\ EnvOps < MaxEnvOps
    /\ clears' = clears + 1
    /\ storage' = [storage EXCEPT !.history = <<>>]
    /\ UNCHANGED <<currentSettings, isInitialized, listeners, changes, badge,
                   initPc, inst, tabs, hung, appended, overlapped, saves, faults>>
    /\ erased' = erased \cup {storage.history[k] : k \in DOMAIN storage.history}
    /\ UNCHANGED filterVars
    /\ UNCHANGED loadVars

Next ==
    \/ \E c \in Callers : InitializeCall(c)
    \/ \E c \in Callers, fault \in BOOLEAN : InitializeRead(c, fault)
    \/ \E c \in Callers : InitializeLoaded(c)
    \/ \E i \in Instances, delta \in DeltaStates, id \in DownloadIds :
           HandleDownloadChanged(i, delta, id)
    \/ \E i \in Instances, fault \in BOOLEAN : HandlerRead(i, fault)
    \/ \E i \in Instances : HandlerInitialized(i)
    \/ \E i \in Instances, ok \in BOOLEAN : SearchDone(i, ok)
    \/ \E i \in Instances, ok \in BOOLEAN : OpenDone(i, ok)
    \/ \E i \in Instances, how \in {"loaded", "timeout"} : ReadyOrTimeout(i, how)
    \/ \E i \in Instances : SettleDone(i)
    \/ \E i \in Instances, ok \in BOOLEAN : TriggerDone(i, ok)
    \/ \E i \in Instances, fault \in BOOLEAN : AddLoadSettings(i, fault)
    \/ \E i \in Instances, fault \in BOOLEAN : AddLoadHistory(i, fault)
    \/ \E i \in Instances, fault \in BOOLEAN : AddSetDone(i, fault)
    \/ SettingsChanged
    \/ \E raw \in SettingsInputs : saveSettings(raw)
    \/ clearPrintHistory

Spec == Init /\ [][Next]_vars

\* ------------------------------------------------------------------------
\* The filter engine on its own: checkFilters applied to a filename, under a
\* settings cache that holds what validateSettings made of the filter
\* strings the user entered
\* ------------------------------------------------------------------------
Strings(chars, n) == UNION {[1..k -> chars] : k \in 0..n}

NameChars == {"a", "A", "."}
FilterChars == {"a", "A", ".", " "}

FilenameInputs == Strings(NameChars, MaxNameLen)
FilterInputs == Strings(FilterChars, MaxFilterLen)

\* the worker is initialized and idle; the store and the cache hold the
\* validated settings
FilterInit ==
    /\ \E pf \in FilterInputs, ef \in FilterInputs :
          LET st == validateSettings(RawSettings(TRUE, pf, ef, TRUE, 100))
          IN  /\ storage = [settings |-> ToRaw(st), history |-> <<>>]
              /\ currentSettings = <<st>>
    /\ isInitialized = TRUE
    /\ listeners = 1
    /\ changes = <<>>
    /\ badge = updateBadge(currentSettings)
    /\ initPc = [c \in Callers |-> "done"]
    /\ inst = [i \in Instances |-> Idle]
    /\ tabs = [i \in Instances |-> "none"]
    /\ hung = FALSE
    /\ appended = <<>>
    /\ overlapped = FALSE
    /\ saves = 0
    /\ clears = 0
    /\ faults = 0
    /\ fname \in FilenameInputs
    /\ verdict = <<>>
    /\ loaded = <<>>
    /\ path = <<>>
    /\ initLoad = [c \in Callers |-> <<>>]
    /\ handlerLoad = [i \in Instances |-> <<>>]
    /\ erased = {}

\* const filterResult = checkFilters(filename)
EvaluateFilters ==
    /\ verdict = <<>>
    /\ verdict' = <<checkFilters(currentSettings, fname)>>
    /\ UNCHANGED <<storage, currentSettings, isInitialized, listeners, changes,
                   badge, initPc, inst, tabs, hung, appended, overlapped, saves,
                   clears, faults, fname, loaded, path>>
    /\ UNCHANGED loadVars
    /\ UNCHANGED erased

FilterNext == EvaluateFilters

FilterSpec == FilterInit /\ [][FilterNext]_vars

\* ------------------------------------------------------------------------
\* The settings read path on its own: loadSettings applied to a store that
\* holds any object (nothing, or fields that are missing, null, mistyped or
\* not normalized)
\* ------------------------------------------------------------------------
JsNull == [type |-> "object", b |-> FALSE, s |-> <<>>, n |-> 0]

BoolInputs == {JsUndefined, JsBool(TRUE), JsBool(FALSE), JsString(<<"a">>)}
PrefixInputs ==
    {JsUndefined, JsNull} \cup {JsString(x) : x \in Strings({"a", " "}, MaxFilterLen)}
ExtensionInputs ==
    {JsUndefined, JsNumber(1)} \cup {JsString(x) : x \in FilterInputs}
NumberInputs ==
    {JsUndefined, JsString(<<"a">>), JsNaN, JsNumber(-1), JsNumber(0), JsNumber(5)}

StoredInputs ==
    {<<>>} \cup
    {<<r>> : r \in [enabled : BoolInputs,
                    prefixFilter : PrefixInputs,
                    extensionFilter : ExtensionInputs,
                    showNotifications : BoolInputs,
                    maxHistoryItems : NumberInputs]}

LoadInit ==
    /\ storage \in [settings : StoredInputs, history : {<<>>}]
    /\ currentSettings = <<>>
    /\ isInitialized = FALSE
    /\ listeners = 0
    /\ changes = <<>>
    /\ badge = ""
    /\ initPc = [c \in Callers |-> "idle"]
    /\ inst = [i \in Instances |-> Idle]
    /\ tabs = [i \in Instances |-> "none"]
    /\ hung = FALSE
    /\ appended = <<>>
    /\ overlapped = FALSE
    /\ saves = 0
    /\ clears = 0
    /\ faults = 0
    /\ fname = <<>>
    /\ verdict = <<>>
    /\ loaded = <<>>
    /\ path = <<>>
    /\ initLoad = [c \in Callers |-> <<>>]
    /\ handlerLoad = [i \in Instances |-> <<>>]
    /\ erased = {}

\* const settings = await loadSettings()
LoadSettingsCall ==
    /\ loaded = <<>>
    /\ \E fault \in BOOLEAN :
          /\ Fault(fault)
          /\ loaded' = <<loadSettings(fault)>>
    /\ UNCHANGED <<storage, currentSettings, isInitialized, listeners, changes,
                   badge, initPc, inst, tabs, hung, appended, overlapped, saves,
                   clears, fname, verdict, path>>
    /\ UNCHANGED loadVars
    /\ UNCHANGED erased

LoadNext == LoadSettingsCall

LoadSpec == LoadInit /\ [][LoadNext]_vars

\* ------------------------------------------------------------------------
\* A save followed by a load: saveSettings is handed any object, then
\* loadSettings reads what it persisted
\* ------------------------------------------------------------------------
RoundTripInit == LoadInit /\ storage.settings = <<>>

\* await saveSettings(settings): the object of the options page or the popup
SaveSettingsCall ==
    /\ saves = 0
    /\ \E raw \in StoredInputs : saveSettings(raw)

\* const settings = await loadSettings(), after the save
LoadAfterSave == saves > 0 /\ LoadSettingsCall

RoundTripNext == SaveSettingsCall \/ LoadAfterSave

RoundTripSpec == RoundTripInit /\ [][RoundTripNext]_vars

\* ------------------------------------------------------------------------
\* The handler's filename extraction on its own: a download was resolved,
\* the handler takes its filename and checks the filters
\* ------------------------------------------------------------------------
PathChars == {"a", ".", "/", "\\"}
PathInputs == Strings(PathChars, MaxNameLen + 1)
PrefixFilterInputs == Strings({"a", "/"}, MaxFilterLen)

\* the worker is initialized and idle; a prefix filter is cached
LeafInit ==
    /\ \E pf \in PrefixFilterInputs :
          LET st == validateSettings(RawSettings(TRUE, pf, <<>>, TRUE, 100))
          IN  /\ storage = [settings |-> ToRaw(st), history |-> <<>>]
              /\ currentSettings = <<st>>
    /\ isInitialized = TRUE
    /\ listeners = 1
    /\ changes = <<>>
    /\ badge = updateBadge(currentSettings)
    /\ initPc = [c \in Callers |-> "done"]
    /\ inst = [i \in Instances |-> Idle]
    /\ tabs = [i \in Instances |-> "none"]
    /\ hung = FALSE
    /\ appended = <<>>
    /\ overlapped = FALSE
    /\ saves = 0
    /\ clears = 0
    /\ faults = 0
    /\ fname = <<>>
    /\ verdict = <<>>
    /\ loaded = <<>>
    /\ path \in PathInputs
    /\ initLoad = [c \in Callers |-> <<>>]
    /\ handlerLoad = [i \in Instances |-> <<>>]
    /\ erased = {}

\* const filename = getFilename(downloadItem);
\* const filterResult = checkFilters(filename)
ExtractAndFilter ==
    /\ verdict = <<>>
    /\ fname' = getFilename([filename |-> path, fileSize |-> 0])
    /\ verdict' = <<checkFilters(currentSettings, fname')>>
    /\ UNCHANGED <<storage, currentSettings, isInitialized, listeners, changes,
                   badge, initPc, inst, tabs, hung, appended, overlapped, saves,
                   clears, faults, loaded, path>>
    /\ UNCHANGED loadVars
    /\ UNCHANGED erased

LeafNext == ExtractAndFilter

LeafSpec == LeafInit /\ [][LeafNext]_vars

TypeOK ==
    /\ \A i \in Instances : inst[i].pc \in
          {"idle", "init", "search", "open", "ready", "settle", "trigger",
           "a_settings", "a_history", "a_set", "hung", "done"}
    /\ Len(storage.history) <= 2 * MaxEvents

\* ------------------------------------------------------------------------
\* Properties
\* ------------------------------------------------------------------------
Done(i) == inst[i].pc = "done"

Min(a, b) == IF a < b THEN a ELSE b

\* the records a call has stored: its addToPrintHistory calls that resolved
Stored(i) == {k \in DOMAIN inst[i].records : inst[i].records[k].ok}

\* one of the call's storage writes was rejected
WriteFailed(i) == \E k \in DOMAIN inst[i].records : ~inst[i].records[k].ok

\* a call that has returned never acts again
Quiet(i) == Done(i) => inst'[i] = inst[i] /\ tabs'[i] = tabs[i]

\* what a call that did nothing leaves behind
NoEffect(r) ==
    /\ ~r.searched /\ ~r.printFile
    /\ r.trigger = "" /\ r.records = <<>> /\ r.note = ""

\* C1: every call of printFile that has returned has appended exactly one
\* history record, whichever path it took (a call whose storage write was
\* rejected is not held against the claim).
C1_OneRecordPerPrintFile ==
    \A i \in Instances :
        Done(i) /\ inst[i].printFile /\ ~WriteFailed(i)
            => Cardinality(Stored(i)) = 1

\* C2: a call whose print trigger threw ends with a stored record of status
\* printed and with its notification issued (created when showNotifications
\* is true).
C2_TriggerFailureIsRecordedPrinted ==
    \A i \in Instances :
        Done(i) /\ inst[i].trigger = "failed"
            => /\ \E k \in Stored(i) : inst[i].records[k].item.status = "printed"
               /\ inst[i].note \in {"ready", "suppressed"}

\* C3: when all calls have returned (no settings save, no clear and no
\* storage failure having occurred), the history holds one record for each
\* call that appended one, up to the cap, none lost and none duplicated.
C3_OverlappingAppendsAllKept ==
    LET n == Cardinality({i \in Instances : Stored(i) # {}})
        cap == validateSettings(storage.settings).maxHistoryItems
        h == storage.history
    IN  (EnvOps = 0 /\ \A i \in Instances : Done(i))
            => /\ Len(h) = Min(n, cap.n)
               /\ \A k, l \in DOMAIN h : k # l => h[k] # h[l]

\* C4: a complete event handled while the cached settings are missing or
\* have enabled = false makes the call return at once: no search, no tab, no
\* record, no notification; storage and tabs are untouched, and the call
\* never acts again.
C4_DisabledIsNoOp ==
    [][\A i \in Instances :
          LET cs == IF inst[i].pc = "init" THEN currentSettings' ELSE currentSettings
          IN  /\ ( /\ inst[i].pc \in {"idle", "init"}
                   /\ inst'[i].pc \notin {"idle", "init"}
                   /\ inst'[i].event = "complete"
                   /\ (cs = <<>> \/ ~cs[1].enabled) )
                 => /\ inst'[i].pc = "done"
                    /\ NoEffect(inst'[i])
                    /\ storage' = storage /\ tabs' = tabs
              /\ Quiet(i)]_vars

C4_Witness ==
    \E i \in Instances :
        /\ Done(i) /\ inst[i].event = "complete" /\ inst[i].failure = "disabled"
        /\ currentSettings # <<>> /\ ~currentSettings[1].enabled

\* C5: an event whose state is absent or not complete has no effect: the
\* call has returned, having searched nothing, opened no tab, triggered no
\* print, stored no record and issued no notification.
C5_NonCompleteIgnored ==
    \A i \in Instances :
        inst[i].event \notin {"", "complete"}
            => Done(i) /\ NoEffect(inst[i]) /\ tabs[i] = "none"

C5_Witness ==
    \E i \in Instances :
        /\ Done(i) /\ inst[i].event = "interrupted"
        /\ currentSettings # <<>> /\ currentSettings[1].enabled

\* C6: when the search resolves with a download whose leaf filename does not
\* match the filters, the call returns at once: no tab, no print trigger, no
\* notification, storage (the history) untouched; and it never acts again.
C6_NonMatchIsNoOp ==
    [][\A i \in Instances :
          /\ ( /\ inst[i].pc = "search"
               /\ inst'[i].pc # "search"
               /\ inst[i].id \in DOMAIN DownloadTable
               /\ ~checkFilters(currentSettings,
                                getFilename(DownloadTable[inst[i].id])).matches )
             => /\ inst'[i].pc = "done"
                /\ ~inst'[i].printFile /\ inst'[i].trigger = ""
                /\ inst'[i].records = <<>> /\ inst'[i].note = ""
                /\ storage' = storage /\ tabs' = tabs
          /\ Quiet(i)]_vars

C6_Witness ==
    \E i \in Instances :
        /\ Done(i) /\ inst[i].failure = "filtered"
        /\ tabs[i] = "none" /\ inst[i].records = <<>>

\* C7: a call whose tab could not be opened, or whose printed-record append
\* was rejected, aborts: from then on it only appends and returns, and a call
\* whose open failed never triggers a print.  Its last append is the one
\* error record, carrying the captured error message; that record is stored
\* at the head of the history unless the storage write itself is rejected
\* (which is swallowed); and the error notification is created exactly when
\* showNotifications is true at that moment.
C7_Aborted(i) ==
    inst[i].failure \in {"open", "storage"}
        => /\ inst[i].pc \in AppendPcs \cup {"done", "hung"}
           /\ inst[i].failure = "open" => inst[i].trigger = "" /\ tabs[i] = "none"
           /\ Done(i) =>
                /\ Cardinality({k \in DOMAIN inst[i].records :
                                   inst[i].records[k].item.status = "error"}) = 1
                /\ inst[i].note \in {"error", "suppressed"}

C7_ErrorAppendSettles(i) ==
    (inst[i].pc = "a_set" /\ inst[i].status = "error" /\ inst'[i].pc # "a_set")
        => LET last == inst'[i].records[Len(inst'[i].records)]
           IN  /\ inst'[i].pc = "done"
               /\ last.item.status = "error"
               /\ last.item.error = inst[i].error
               /\ inst[i].error = inst[i].failure
               /\ last.ok => /\ storage'.history = inst[i].history
                             /\ ~Exceeds(<<last.item>>, inst[i].cap)
                                    => Head(storage'.history) = last.item
               /\ ~last.ok => storage' = storage
               /\ inst'[i].note =
                      IF currentSettings # <<>> /\ currentSettings[1].showNotifications
                      THEN "error" ELSE "suppressed"

C8_NotFoundAborts ==
    [][\A i \in Instances :
          /\ ( /\ inst[i].pc = "search"
               /\ inst'[i].pc # "search"
               /\ inst[i].id \notin DOMAIN DownloadTable )
             => /\ inst'[i].pc = "done"
                /\ ~inst'[i].printFile
                /\ inst'[i].records = <<>> /\ inst'[i].note = ""
                /\ storage' = storage /\ tabs' = tabs
          /\ Quiet(i)]_vars

C8_Witness ==
    \E i \in Instances :
        /\ Done(i) /\ inst[i].failure = "notfound"
        /\ inst[i].id \notin DOMAIN DownloadTable

\* C9 as stated: a call whose download record could not be resolved by id
\* ends with a record of status error appended and its error notification
\* issued.
C9_UnresolvedLogsError ==
    \A i \in Instances :
        Done(i) /\ inst[i].failure = "notfound"
            => /\ \E k \in DOMAIN inst[i].records :
                      inst[i].records[k].item.status = "error"
               /\ inst[i].note \in {"error", "suppressed"}

\* C9 (amended): a call whose download record could not be resolved (the
\* search returned no item, or rejected) has returned without calling
\* printFile: it appended no record and issued no notification.
C9_UnresolvedAbortsSilently ==
    \A i \in Instances :
        inst[i].failure \in {"notfound", "search"}
            => /\ Done(i) /\ inst[i].searched /\ ~inst[i].printFile
               /\ inst[i].trigger = "" /\ inst[i].records = <<>>
               /\ inst[i].note = "" /\ tabs[i] = "none"

C9_Witness ==
    \E i \in Instances :
        /\ Done(i) /\ inst[i].failure \in {"notfound", "search"}
        /\ inst[i].note = ""
        /\ currentSettings # <<>> /\ currentSettings[1].showNotifications

\* C10: after N appends that did not overlap, on an initially empty history
\* that was never cleared, with the persisted cap C >= 0 never changed and
\* used by every append, the stored history is the min(N, C) most recently
\* appended records, newest first.
Reverse(q) == [k \in 1..Len(q) |-> q[Len(q) + 1 - k]]

C10_SequentialAppends ==
    LET cap == validateSettings(storage.settings).maxHistoryItems
        items == [k \in 1..Len(appended) |-> appended[k].item]
    IN  ( /\ ~overlapped /\ saves = 0 /\ clears = 0
          /\ \A i \in Instances : inst[i].pc \notin AppendPcs
          /\ ~cap.nan /\ cap.n >= 0
          /\ \A k \in DOMAIN appended : appended[k].cap = cap )
            => storage.history =
                   SubSeq(Reverse(items), 1, Min(Len(items), cap.n))

\* the same, when in addition no storage operation failed
C10_WithoutStorageFailure == faults = 0 => C10_SequentialAppends

\* the cap the store holds now, as loadSettings would read it
PersistedCap == validateSettings(storage.settings).maxHistoryItems

AppendInProgress == \E i \in Instances : inst[i].pc \in AppendPcs

\* C11: whenever no append is in progress, the stored history has at most
\* maxHistoryItems records, maxHistoryItems being the persisted setting (a
\* number >= 0); no storage operation having failed.
C11_HistoryWithinCap ==
    ( /\ ~AppendInProgress
      /\ faults = 0
      /\ ~PersistedCap.nan /\ PersistedCap.n >= 0 )
        => Len(storage.history) <= PersistedCap.n

\* the same between settings saves: the cap is only enforced by an append
C11_WithoutSave == saves = 0 => C11_HistoryWithinCap

\* the next step of call i, whatever its outcome
InstanceStep(i) ==
    \/ \E fault \in BOOLEAN : HandlerRead(i, fault)
    \/ HandlerInitialized(i)
    \/ \E ok \in BOOLEAN : SearchDone(i, ok)
    \/ \E ok \in BOOLEAN : OpenDone(i, ok)
    \/ \E how \in {"loaded", "timeout"} : ReadyOrTimeout(i, how)
    \/ SettleDone(i)
    \/ \E ok \in BOOLEAN : TriggerDone(i, ok)
    \/ \E fault \in BOOLEAN : AddLoadSettings(i, fault)
    \/ \E fault \in BOOLEAN : AddLoadHistory(i, fault)
    \/ \E fault \in BOOLEAN : AddSetDone(i, fault)

\* the call passed the enabled check and has not returned
Started(i) == inst[i].searched /\ ~Done(i)

InFlightPcs == {"search", "open", "ready", "settle", "trigger"}

Disabled == currentSettings # <<>> /\ ~currentSettings[1].enabled

\* C12: a workflow that has started runs to its terminal state whatever
\* settings are saved afterwards: as long as it has not returned, its next
\* step can be taken.
C12_StartedRunsToTerminal ==
    \A i \in Instances : Started(i) => ENABLED InstanceStep(i)

\* the part of C12 about enabled: a step that a started call takes while the
\* cached enabled is false is the step of the workflow; the call is not
\* aborted as disabled, ends early only by a failure of its own, and a
\* successful trigger takes it to the append of the printed record.
C12_StepWhileDisabled(i) ==
    (Disabled /\ inst[i].pc \in InFlightPcs /\ inst'[i] # inst[i])
        => LET r == inst[i]
               s == inst'[i]
           IN  /\ s.failure # "disabled"
               /\ r.pc = "search" =>
                    \/ s.pc = "open" /\ s.printFile
                    \/ s.pc = "done" /\ s.failure \in {"search", "notfound", "filtered"}
               /\ r.pc = "open" =>
                    \/ s.pc = "ready" /\ tabs'[i] = "open"
                    \/ s.pc = "a_settings" /\ s.failure = "open"
               /\ r.pc = "ready" => s.pc = "settle"
               /\ r.pc = "settle" => s.pc = "trigger"
               /\ r.pc = "trigger" =>
                    \/ s.pc = "a_settings" /\ s.trigger = "ok" /\ s.status = "printed"
                    \/ s.pc = "done" /\ s.trigger = "failed"

C12_DisableDoesNotAbort ==
    [][\A i \in Instances : C12_StepWhileDisabled(i)]_vars

\* a call that was in flight when enabled became false, and printed
C12_PrintedWhileDisabled ==
    \E i \in Instances :
        /\ Disabled /\ Done(i) /\ inst[i].trigger = "ok"
        /\ \E k \in Stored(i) : inst[i].records[k].item.status = "printed"

\* C13: a call waiting for its tab to load always leaves the wait: the load
\* signal or the 3000 ms timer, whichever comes first, can end it.
C13_ReadyWaitEnds ==
    \A i \in Instances :
        inst[i].pc = "ready"
            => ENABLED (\E how \in {"loaded", "timeout"} : ReadyOrTimeout(i, how))

\* the part of C13 about the outcome: the wait ends in the settle delay and
\* then the trigger, by the signal or by the timer, and a call whose wait
\* ended by the timer meets no failure because of it: it has no error record
\* and no error notification unless the append of its printed record failed.
C13_TimeoutIsNotFailure ==
    /\ [](\A i \in Instances :
            inst[i].ready = "timeout" /\ inst[i].failure = ""
                => /\ \A k \in DOMAIN inst[i].records :
                          inst[i].records[k].item.status = "printed"
                   /\ inst[i].note # "error")
    /\ [][\A i \in Instances :
            /\ (inst[i].pc = "ready" /\ inst'[i] # inst[i])
                 => /\ inst'[i].pc = "settle"
                    /\ inst'[i].ready \in {"loaded", "timeout"}
                    /\ inst'[i].failure = "" /\ inst'[i].records = <<>>
            /\ (inst[i].pc = "settle" /\ inst'[i] # inst[i])
                 => /\ inst'[i].pc = "trigger"
                    /\ inst'[i].failure = "" /\ inst'[i].ready = inst[i].ready]_vars

\* a call whose wait ended by the timer, and printed
C13_PrintedAfterTimeout ==
    \E i \in Instances :
        /\ Done(i) /\ inst[i].ready = "timeout" /\ inst[i].trigger = "ok"
        /\ inst[i].note = "success"

\* C14: every call that opened a tab and has returned (printed, degraded
\* success or error) has scheduled the removal of that tab.
C14_OpenedTabIsDisposed ==
    \A i \in Instances :
        Done(i) /\ tabs[i] # "none" => tabs[i] = "closing"

\* the same for the calls that stored their printed record
C14_PrintedTabIsDisposed ==
    \A i \in Instances :
        Done(i) /\ inst[i].trigger = "ok" /\ inst[i].failure = ""
            => tabs[i] = "closing"

Notifications == {"success", "ready", "error"}

\* C15: a notification (success, manual-print fallback or error) is created
\* only in a state where the cached settings have showNotifications = true;
\* while it is false (or nothing is cached) a call's showNotification creates
\* nothing.
C15_NotifiesOnlyWhenEnabled ==
    [][\A i \in Instances :
          inst'[i].note # inst[i].note
              => IF currentSettings # <<>> /\ currentSettings[1].showNotifications
                 THEN inst'[i].note \in Notifications
                 ELSE inst'[i].note = "suppressed"]_vars

C15_Witness ==
    \E i \in Instances :
        /\ Done(i) /\ inst[i].trigger = "ok" /\ inst[i].note = "suppressed"
        /\ currentSettings # <<>> /\ ~currentSettings[1].showNotifications

\* the call met a failure: record resolution, opening, triggering or a
\* history append
Failed(i) ==
    \/ inst[i].failure \in {"search", "notfound", "open", "storage"}
    \/ inst[i].trigger = "failed"
    \/ WriteFailed(i)

\* every other call can go on: one in progress can take its next step, and a
\* further download event can be delivered to the handler
OthersGoOn(i) ==
    \A j \in Instances \ {i} :
        /\ inst[j].pc \notin {"idle", "done"} => ENABLED InstanceStep(j)
        /\ inst[j].pc = "idle" /\ (\A k \in Instances : k < j => inst[k].pc # "idle")
               => ENABLED (\E id \in DownloadIds : HandleDownloadChanged(j, "complete", id))

\* C16: a failure met by one call never keeps another call, in flight or
\* later, from going on to its terminal state.
C16_FailureNeverBlocksOthers ==
    \A i \in Instances : Failed(i) => OthersGoOn(i)

\* the same while no trimming loop is running for ever; and a call that met
\* a failure of its own goes on to return
C16_FailureIsLocal ==
    ~hung =>
        \A i \in Instances :
            Failed(i) => /\ OthersGoOn(i)
                         /\ Done(i) \/ ENABLED InstanceStep(i)

\* one call failed and returned, and a later call printed
C16_PrintedAfterFailure ==
    \E i, j \in Instances :
        /\ i < j /\ Done(i) /\ inst[i].failure = "open" /\ inst[i].note = "error"
        /\ Done(j) /\ inst[j].trigger = "ok" /\ inst[j].note = "success"

\* C17: handling a settings change notification replaces the cache by the
\* validated new value and re-derives the badge from it: afterwards the cache
\* is validateSettings(newValue) and the badge text is ON exactly when the
\* cached enabled is true; and the badge agrees with the cache in every
\* state.
C17_ChangeRefreshesCacheAndBadge ==
    /\ [][Len(changes') < Len(changes)
            => /\ currentSettings' = <<validateSettings(Head(changes))>>
               /\ changes' = Tail(changes)
               /\ (badge' = "ON") <=> currentSettings'[1].enabled]_vars
    /\ []((badge = "ON") <=> (currentSettings # <<>> /\ currentSettings[1].enabled))
    /\ [](badge \in {"", "ON"})

\* a call started while enabled was cached; the save that disabled the
\* extension was then notified and handled
C17_Witness ==
    /\ saves = 1 /\ changes = <<>> /\ listeners > 0
    /\ \E i \in Instances : inst[i].searched
    /\ Disabled /\ badge = ""
    /\ currentSettings = <<validateSettings(storage.settings)>>

\* checkFilters has been called on fname under the cached settings
Evaluated == verdict # <<>> /\ currentSettings # <<>>

PrefixFilter == currentSettings[1].prefixFilter
ExtensionFilter == currentSettings[1].extensionFilter

\* C18: with the prefix filter and the extension filter both empty (settings
\* loaded), checkFilters returns matches = true for every filename, the empty
\* one and those without a dot included.
C18_NoFilterMatchesAll ==
    (Evaluated /\ PrefixFilter = <<>> /\ ExtensionFilter = <<>>)
        => verdict[1].matches

C18_Witness ==
    /\ Evaluated /\ PrefixFilter = <<>> /\ ExtensionFilter = <<>>
    /\ fname = <<>> /\ verdict[1].matches

\* f starts with p, letter case ignored
StartsWithIgnoringCase(f, p) ==
    /\ Len(p) <= Len(f)
    /\ \A k \in 1..Len(p) : LowerChar(f[k]) = LowerChar(p[k])

\* C19: with a non-empty prefix filter p and the extension filter empty,
\* checkFilters(f).matches holds exactly when lower(f) starts with lower(p).
C19_PrefixOnly ==
    (Evaluated /\ PrefixFilter # <<>> /\ ExtensionFilter = <<>>)
        => (verdict[1].matches <=> StartsWithIgnoringCase(fname, PrefixFilter))

C19_Witness ==
    /\ Evaluated /\ ExtensionFilter = <<>>
    /\ PrefixFilter = <<"A", ".">> /\ fname = <<"a", ".", "A">>
    /\ verdict[1].matches

HasDot(f) == \E k \in 1..Len(f) : f[k] = "."

\* the substring of f after its last dot
AfterLastDot(f) ==
    LET last == CHOOSE k \in 1..Len(f) :
                    f[k] = "." /\ \A j \in (k + 1)..Len(f) : f[j] # "."
    IN  SubSeq(f, last + 1, Len(f))

\* what the extension of f is compared with: e without its leading dot,
\* lower-cased
Wanted(e) == stripLeadingDot(toLowerCase(e))

\* C20: with a non-empty extension filter e and the prefix filter empty,
\* checkFilters(f).matches holds exactly when f has a dot and the substring
\* after its last dot, lower-cased, is e stripped of its leading dot and
\* lower-cased; a filename with no dot never matches.
C20_ExtensionOnly ==
    (Evaluated /\ PrefixFilter = <<>> /\ ExtensionFilter # <<>>)
        => (verdict[1].matches <=>
                (HasDot(fname) /\ toLowerCase(AfterLastDot(fname)) = Wanted(ExtensionFilter)))

\* the same for the extension filters that name an extension (something is
\* left of them once the leading dot is stripped)
C20_ProperExtension ==
    Wanted(ExtensionFilter) # <<>> => C20_ExtensionOnly

\* the extension of f: what follows its last dot, lower-cased; empty when f
\* has no dot
ExtensionOf(f) == IF HasDot(f) THEN toLowerCase(AfterLastDot(f)) ELSE <<>>

\* the notes a verdict carries for the sub-filters that failed
NotesFor(prefixOk, extensionOk) ==
    (IF prefixOk THEN <<>> ELSE <<"Prefix not matched">>)
    \o (IF extensionOk THEN <<>> ELSE <<"Extension not matched">>)

\* spec scenario C, README example 2: prefix inv_ and extension pdf on
\* inv_2024.docx
ScenarioC ==
    checkFilters(<<validateSettings(RawSettings(TRUE, Str_inv, <<"p","d","f">>, TRUE, 100))>>,
                 <<"i","n","v","_","2","0","2","4",".","d","o","c","x">>)

\* C21: with both filters active, matches is the AND of the prefix verdict
\* (lower(f) starts with lower(p)) and the extension verdict (the extension
\* of f is e without its leading dot), the two verdicts are reported as
\* prefixMatch and extensionMatch, and details holds one note for each
\* sub-filter that failed; inv_ + pdf on inv_2024.docx gives matches = false
\* with the extension note.
C21_BothFilters ==
    /\ (Evaluated /\ PrefixFilter # <<>> /\ ExtensionFilter # <<>>)
          => LET prefixOk == StartsWithIgnoringCase(fname, PrefixFilter)
                 extensionOk == ExtensionOf(fname) = Wanted(ExtensionFilter)
             IN  /\ verdict[1].prefixMatch = prefixOk
                 /\ verdict[1].extensionMatch = extensionOk
                 /\ verdict[1].matches = (prefixOk /\ extensionOk)
                 /\ verdict[1].details = NotesFor(prefixOk, extensionOk)
    /\ ~ScenarioC.matches /\ ScenarioC.prefixMatch
    /\ ScenarioC.details = <<"Extension not matched">>

\* prefix matched, extension did not: not a match, with the extension note
\* the field named f of what the store holds
StoredField(f) == Field(storage.settings, f)

\* a load whose storage read succeeded
Loaded == loaded # <<>> /\ faults = 0

\* C22: every field of the settings read from the store is the stored field
\* when that has the expected type (a string trimmed, the extension also
\* lower-cased and without its first dot) and its own default otherwise
\* (false, '', '', true, 100), whatever the other fields are; a store that
\* holds nothing gives the defaults.
C22_FieldsDefaultIndividually ==
    Loaded =>
        /\ loaded[1].enabled =
              (IF StoredField("enabled").type = "boolean"
               THEN StoredField("enabled").b ELSE FALSE)
        /\ loaded[1].prefixFilter =
              (IF StoredField("prefixFilter").type = "string"
               THEN trim(StoredField("prefixFilter").s) ELSE <<>>)
        /\ loaded[1].extensionFilter =
              (IF StoredField("extensionFilter").type = "string"
               THEN stripLeadingDot(toLowerCase(trim(StoredField("extensionFilter").s)))
               ELSE <<>>)
        /\ loaded[1].showNotifications =
              (IF StoredField("showNotifications").type = "boolean"
               THEN StoredField("showNotifications").b ELSE TRUE)
        /\ loaded[1].maxHistoryItems =
              (IF StoredField("maxHistoryItems").type = "number"
               THEN Num(StoredField("maxHistoryItems").n)
               ELSE IF StoredField("maxHistoryItems").type = "NaN"
               THEN NaN ELSE Num(100))

\* a mistyped enabled and a missing maxHistoryItems next to valid filters
C22_Witness ==
    /\ Loaded
    /\ storage.settings # <<>>
    /\ StoredField("enabled").type = "string"
    /\ StoredField("maxHistoryItems").type = "undefined"
    /\ StoredField("prefixFilter") = JsString(<<"a", " ">>)
    /\ StoredField("extensionFilter") = JsString(<<".", "A">>)
    /\ loaded[1].enabled = FALSE
    /\ loaded[1].prefixFilter = <<"a">>
    /\ loaded[1].extensionFilter = <<"a">>
    /\ loaded[1].maxHistoryItems = Num(100)

\* C23: the extensionFilter that validateSettings produces is lower-case and
\* does not start with a dot.
C23_ExtensionNormalized ==
    loaded # <<>> =>
        /\ loaded[1].extensionFilter = toLowerCase(loaded[1].extensionFilter)
        /\ loaded[1].extensionFilter # <<>>
              => Head(loaded[1].extensionFilter) # "."

\* the part of C23 that holds: lower-case, and one dot shorter than a
\* stored string that starts with a dot
C23_LowerCaseOneDotStripped ==
    Loaded =>
        /\ loaded[1].extensionFilter = toLowerCase(loaded[1].extensionFilter)
        /\ (/\ StoredField("extensionFilter").type = "string"
            /\ trim(StoredField("extensionFilter").s) # <<>>
            /\ Head(trim(StoredField("extensionFilter").s)) = ".")
              => Len(loaded[1].extensionFilter)
                   = Len(trim(StoredField("extensionFilter").s)) - 1

\* a number of a settings record that is finite and not negative
NonNegative(x) == ~x.nan /\ x.n >= 0

\* C24: the settings held by the store and by the worker's cache always have
\* maxHistoryItems >= 0 (not negative, not NaN).
C24_CapNeverNegative ==
    /\ storage.settings # <<>>
          => NonNegative(validateSettings(storage.settings).maxHistoryItems)
    /\ currentSettings # <<>> => NonNegative(currentSettings[1].maxHistoryItems)

\* the call's printed record was written to the store
PrintedStored(r) ==
    \E k \in 1..Len(r.records) :
        r.records[k].item.status = "printed" /\ r.records[k].ok

\* C25: the steps of one printFile call come in a fixed order: the ready
\* wait starts only when the tab has been opened; the settle delay starts
\* only when the ready wait ended (tab loaded or timeout); executeScript is
\* called only when the settle delay has elapsed; the printed record is
\* built and appended only after executeScript succeeded; the success
\* notification comes only with a stored printed record; the removal of the
\* tab is scheduled only at the end of the call, after all of these.
C25_StepOrder ==
    [][\A i \in Instances :
          /\ (inst'[i].pc = "ready" /\ inst[i].pc # "ready")
                => inst[i].pc = "open" /\ tabs'[i] = "open"
          /\ (inst'[i].pc = "settle" /\ inst[i].pc # "settle")
                => inst[i].pc = "ready" /\ inst'[i].ready \in {"loaded", "timeout"}
          /\ (inst'[i].pc = "trigger" /\ inst[i].pc # "trigger")
                => inst[i].pc = "settle" /\ inst[i].ready # ""
          /\ (inst'[i].status = "printed" /\ inst[i].status # "printed")
                => inst[i].pc = "trigger" /\ inst'[i].trigger = "ok"
          /\ (PrintedStored(inst'[i]) /\ ~PrintedStored(inst[i]))
                => inst[i].pc = "a_set" /\ inst[i].trigger = "ok"
          /\ (inst'[i].note = "success" /\ inst[i].note # "success")
                => PrintedStored(inst'[i])
          /\ (tabs'[i] = "closing" /\ tabs[i] # "closing")
                => /\ inst'[i].pc = "done"
                   /\ inst[i].ready # "" /\ inst[i].trigger = "ok"
                   /\ PrintedStored(inst'[i])
                   /\ inst'[i].note \in {"success", "suppressed"}
    ]_vars

\* a call went through every step: opened, waited until the timeout,
\* triggered, stored the printed record, notified, scheduled the removal
C25_Witness ==
    \E i \in Instances :
        /\ tabs[i] = "closing"
        /\ inst[i].ready = "timeout"
        /\ inst[i].trigger = "ok"
        /\ PrintedStored(inst[i])
        /\ inst[i].note = "success"

\* the position of the last separator of p (0: p has none)
LastSeparator(p) ==
    IF \E k \in 1..Len(p) : p[k] \in PathSeparators
    THEN CHOOSE k \in 1..Len(p) :
             /\ p[k] \in PathSeparators
             /\ \A m \in (k + 1)..Len(p) : p[m] \notin PathSeparators
    ELSE 0

\* the segment of p after its last separator
Leaf(p) == SubSeq(p, LastSeparator(p) + 1, Len(p))

\* C26: the string handed to checkFilters is the segment of the download's
\* path after its last '/' or '\' (the empty string for an empty path), so
\* the prefix verdict is about the file's name, never about its directory.
C26_FilterSeesLeafOnly ==
    Evaluated =>
        /\ fname = Leaf(path)
        /\ \A k \in 1..Len(fname) : fname[k] \notin PathSeparators
        /\ path = <<>> => fname = <<>>
        /\ PrefixFilter # <<>>
              => (verdict[1].matches <=> StartsWithIgnoringCase(Leaf(path), PrefixFilter))

\* the directory starts with the prefix, the file's name does not
C26_Witness ==
    /\ Evaluated
    /\ PrefixFilter = <<"a">>
    /\ path = <<"a", "/", ".", "a">>
    /\ fname = <<".", "a">>
    /\ ~verdict[1].matches

\* C27: addToPrintHistory terminates for every numeric maxHistoryItems,
\* negative values included: no call stays inside the trimming loop.
C27_TrimLoopExits ==
    \A i \in Instances : inst[i].pc # "hung"

\* the loop is left for every cap that is not negative
C27_ExitsUnlessNegative ==
    \A i \in Instances :
        inst[i].pc = "hung" => ~inst[i].cap.nan /\ inst[i].cap.n < 0

\* a step in which an addToPrintHistory call that ran alone wrote the history
\* (no other append in progress since the start, no clear, no save), the
\* history before it being shorter than the persisted cap
AppendWrote ==
    /\ storage.history' # storage.history
    /\ clears' = 0 /\ saves' = 0 /\ ~overlapped'
    /\ ~PersistedCap.nan /\ Len(storage.history) < PersistedCap.n

\* the written history is the new record followed by the records held before
KeptAll ==
    /\ Len(storage.history') = Len(storage.history) + 1
    /\ SubSeq(storage.history', 2, Len(storage.history')) = storage.history

\* C28: an append removes no record except by trimming: when the history
\* holds k < maxHistoryItems records and the call resolves, the history holds
\* those k records and the new one, also when a storage read inside the call
\* failed.
C28_AppendKeepsRecords == [][AppendWrote => KeptAll]_vars

\* the same for the appends made while no storage operation has failed
C28_WithoutReadFailure == [][AppendWrote /\ faults' = 0 => KeptAll]_vars

\* the call has settled an append of a record with status error
ErrorRecorded(r) ==
    \E k \in 1..Len(r.records) : r.records[k].item.status = "error"

\* C29: no call both triggers the print successfully and appends an error
\* record or creates the 'Print Failed' notification.
C29_NoErrorAfterTrigger ==
    \A i \in Instances :
        inst[i].trigger = "ok"
            => ~ErrorRecorded(inst[i]) /\ inst[i].note # "error"

\* an error record or a 'Print Failed' notification after a successful
\* trigger comes only from the failed write of the printed record
C29_OnlyWhenPrintedWriteFailed ==
    \A i \in Instances :
        (inst[i].trigger = "ok"
            /\ (ErrorRecorded(inst[i]) \/ inst[i].note = "error"))
            => /\ inst[i].failure = "storage"
               /\ \E k \in 1..Len(inst[i].records) :
                     /\ inst[i].records[k].item.status = "printed"
                     /\ ~inst[i].records[k].ok

\* the call i leaves the search and calls printFile
Opens(i) == inst[i].pc = "search" /\ inst'[i].pc = "open"

\* the settings the filter check of the step reads are enabled and match
\* the filename of the download of call i
EnabledAndMatching(i) ==
    /\ currentSettings # <<>>
    /\ currentSettings[1].enabled
    /\ checkFilters(currentSettings, getFilename(DownloadTable[inst[i].id])).matches

\* C30: the enabled check and the filter check of a call see the same
\* settings: when a call opens a file, the settings its filter check reads
\* are the ones that passed its enabled check, so they have enabled = true
\* and match the filename.
C30_OneSnapshot ==
    [][\A i \in Instances : Opens(i) => EnabledAndMatching(i)]_vars

\* the same while the cache is not replaced between the two checks: no
\* settings were saved and no settings load failed
C30_OneSnapshotUnchangedCache ==
    [][\A i \in Instances :
          (Opens(i) /\ saves = 0 /\ faults = 0) => EnabledAndMatching(i)]_vars

\* the call i, which waited for initialize(), resumes and makes its enabled
\* check
ResumesAfterInit(i) == inst[i].pc = "init" /\ inst'[i].pc # "init"

\* the settings the store holds, as loadSettings would read them
Persisted == validateSettings(storage.settings)

\* C31: a complete event delivered before initialization has finished is
\* evaluated against the persisted settings after a settings load: when the
\* persisted settings have enabled = true the call is not dropped as
\* disabled but goes on to resolve the download.
C31_EarlyEventNotDropped ==
    [][\A i \in Instances :
          (ResumesAfterInit(i) /\ Persisted.enabled)
              => inst'[i].pc = "search" /\ inst'[i].failure = ""]_vars

\* the same when the load read what the store holds now: no settings were
\* saved and no storage read failed
C31_NotDroppedWhenLoadIsCurrent ==
    [][\A i \in Instances :
          (ResumesAfterInit(i) /\ Persisted.enabled /\ saves = 0 /\ faults = 0)
              => inst'[i].pc = "search" /\ inst'[i].failure = ""]_vars

\* C32: however many initialize() calls are made and however they
\* interleave, the settings-change listener is registered at most once.
C32_ListenerRegisteredOnce == listeners <= 1

\* a listener is registered only by an initialize() that was called before
\* isInitialized was set, and a call made afterwards returns at once
C32_RegisteredOnlyByPendingInitialize ==
    [][/\ listeners' # listeners
           => /\ listeners' = listeners + 1
              /\ \/ \E c \in Callers : initPc[c] = "load" /\ initPc'[c] = "done"
                 \/ \E i \in Instances : ResumesAfterInit(i)
       /\ \A i \in Instances :
             (isInitialized /\ inst[i].pc = "idle") => inst'[i].pc # "init"]_vars

\* no initialize() call is pending: each was not made or has completed
InitializeSettled ==
    /\ \A c \in Callers : initPc[c] # "load"
    /\ \A i \in Instances : inst[i].pc # "init"

\* C33: once initialize() has completed and every storage change event has
\* been handled, the cached settings are validateSettings of the persisted
\* settings, however a save interleaves with the load and the registration
\* of the listener (no storage operation failing).
C33_CacheIsPersisted ==
    (isInitialized /\ InitializeSettled /\ changes = <<>> /\ faults = 0)
        => currentSettings = <<Persisted>>

\* a change event that is handled while no initialize() is pending leaves
\* the cache equal to the persisted settings when it was the last one
C33_HandledChangeIsCurrent ==
    [][(changes # <<>> /\ changes' = <<>> /\ InitializeSettled)
          => currentSettings' = <<Persisted>>]_vars

\* the records of the stored history
StoredRecords == {storage.history[k] : k \in DOMAIN storage.history}

\* C34: after clearPrintHistory no record that was in the history before the
\* clear is in the history again, also when an addToPrintHistory call had
\* read the history before the clear.
C34_ClearedStaysCleared == StoredRecords \cap erased = {}

\* a cleared record comes back only by the write of an addToPrintHistory
\* call that had read the history before the clear
C34_RestoredOnlyByInFlightAppend ==
    [][(StoredRecords \cap erased = {} /\ erased' = erased)
          => \A x \in erased :
                x \in {storage'.history[k] : k \in DOMAIN storage'.history}
                   => \E i \in Instances :
                         /\ inst[i].pc = "a_set" /\ inst'[i].pc # "a_set"
                         /\ \E k \in DOMAIN inst[i].history : inst[i].history[k] = x
    ]_vars

\* C35: validateSettings is idempotent, so a save followed by a load is a
\* round trip: loadSettings returns exactly the settings that saveSettings
\* persisted and returned.
C35_SaveLoadRoundTrip ==
    Loaded => ToRaw(loaded[1]) = storage.settings

\* the round trip of the fields other than extensionFilter
C35_RoundTripOfOtherFields ==
    Loaded =>
        /\ JsBool(loaded[1].enabled) = StoredField("enabled")
        /\ JsString(loaded[1].prefixFilter) = StoredField("prefixFilter")
        /\ JsBool(loaded[1].showNotifications) = StoredField("showNotifications")
        /\ ~loaded[1].maxHistoryItems.nan
              => JsNumber(loaded[1].maxHistoryItems.n) = StoredField("maxHistoryItems")
        /\ toLowerCase(loaded[1].extensionFilter) = loaded[1].extensionFilter

C21_Witness ==
    /\ Evaluated
    /\ PrefixFilter = <<"A">> /\ ExtensionFilter = <<"a">>
    /\ fname = <<"a", ".", ".">>
    /\ ~verdict[1].matches /\ verdict[1].prefixMatch
    /\ verdict[1].details = <<"Extension not matched">>

====
